---- MODULE Spec2Model ----
(***************************************************************************)
(* Escalation, knowledge-cache and delivery subsystem of the AI voice      *)
(* receptionist (python-agent/voice_agent.py).                             *)
(*                                                                         *)
(* Granularity: one action per stretch of code between two suspension      *)
(* points (awaits on a backend HTTP call or on session.generate_reply).    *)
(* Coroutines of the agent run on one event loop, so the code between two  *)
(* awaits is atomic.                                                       *)
(*                                                                         *)
(* A question is the sequence of its whitespace-delimited tokens, so       *)
(* str.split() is the set of the sequence's elements; str.lower() is the   *)
(* table Lower applied to each token.                                      *)
(***************************************************************************)
EXTENDS Integers, Sequences, FiniteSets, TLC

\* ------------------------------------------------------------------ bounds

MaxCache == 2
MaxReq == 2
MaxKb == 1
MaxConv == 2
MaxHandlers == 2
MaxTime == 60
MaxLoopTime == 150
MaxCacheTime == 90
MaxProgressTime == 105

\* ------------------------------------------------------- program constants

knowledge_refresh_interval == 60
help_requests_refresh_interval == 45
\* refresh loops: asyncio.sleep(30) before retrying
retry_delay == 30
\* mutant: the same-caller rule asks for three common words
MinCommonWordsThree == 2 + 1
MinCommonWords == 2
\* similarity > 0.7, kept as the exact rational SimilarityNum / SimilarityDen
SimilarityNum == 7
SimilarityDen == 10

\* ------------------------------------------------------------------ inputs

NoCaller == ""
Callers == {"c1", "c2"}
CallerIds == Callers \cup {NoCaller}

QEmpty == << >>
QHoursA == <<"what", "are", "your", "hours", "today">>
QHoursB == <<"can", "you", "tell", "me", "your", "hours">>
QReturn == <<"what's", "the", "return", "policy">>
QShout == <<"HOURS", "hours", "Today">>
QSeven == <<"What", "are", "your", "hours", "today", "can", "you">>
QEight == <<"what", "are", "your", "hours", "today", "can", "you", "tell">>
QTen == <<"what", "are", "your", "hours", "today", "can", "you", "tell", "me", "please">>

\* questions of the duplicate-detection inputs, and those callers ask in the system
DupQuestions == {QEmpty, QHoursA, QHoursB, QShout, QSeven, QEight, QTen}
Questions == {QHoursA, QHoursB, QReturn}

\* ------------------------------------------------------------ pure helpers

\* str.lower() on one token
Lower(tok) ==
    CASE tok = "What" -> "what"
      [] tok = "HOURS" -> "hours"
      [] tok = "Today" -> "today"
      [] OTHER -> tok

\* set(question.lower().split())
WordSet(question) == {Lower(question[i]) : i \in 1..Len(question)}

NoRequest == [id |-> -1, question |-> << >>, callerId |-> NoCaller]

NotDuplicate == [is_duplicate |-> FALSE, raised |-> FALSE, existing_request |-> NoRequest,
                 num |-> 0, den |-> 1]
Duplicate(request, n, d) == [is_duplicate |-> TRUE, raised |-> FALSE,
                             existing_request |-> request, num |-> n, den |-> d]
\* ZeroDivisionError out of len(common_words) / len(union) with an empty union
ZeroDivision == [is_duplicate |-> FALSE, raised |-> TRUE, existing_request |-> NoRequest,
                 num |-> 0, den |-> 0]

\* existing_caller == caller_id
SameCaller(existing_caller, caller_id) == existing_caller = caller_id

\* mutant: the threshold is 0.9
AboveNinety(n, d) == n * SimilarityDen > 9 * d
\* mutant: similarity >= 0.7
AtOrAboveThreshold(n, d) == n * SimilarityDen >= SimilarityNum * d

\* similarity > 0.7. len(a)/len(b) is the double nearest to the quotient and 0.7
\* the double nearest to 7/10: they are equal exactly when the quotient is 7/10,
\* and any other quotient of two small lengths is further from 7/10 than one
\* rounding step, so the comparison of doubles is the comparison of rationals.
AboveThreshold(n, d) == n * SimilarityDen > SimilarityNum * d

\* the loop body of check_duplicate_request from entry i on
RECURSIVE CheckFrom(_, _, _, _)
CheckFrom(cache, question_words, caller_id, i) ==
    IF i > Len(cache) THEN NotDuplicate
    ELSE LET request == cache[i]
             existing_words == WordSet(request.question)
             common_words == question_words \cap existing_words
             union == question_words \cup existing_words
         IN  IF SameCaller(request.callerId, caller_id)
                   /\ Cardinality(common_words) >= MinCommonWords
             THEN Duplicate(request, Cardinality(common_words), Cardinality(union))
             ELSE IF Cardinality(union) = 0 THEN ZeroDivision
             ELSE IF AboveThreshold(Cardinality(common_words), Cardinality(union))
             THEN Duplicate(request, Cardinality(common_words), Cardinality(union))
             ELSE CheckFrom(cache, question_words, caller_id, i + 1)

check_duplicate_request(cache, question, caller_id) ==
    CheckFrom(cache, WordSet(question), caller_id, 1)

\* ------------------------------------------------------------------- state

VARIABLES
    now,                         \* asyncio.get_event_loop().time()
    backend,                     \* help requests held by the backend API
    kbEntries,                   \* number of knowledge entries held by the backend
    webhook_secret,              \* WEBHOOK_SECRET of the process environment
    knowledge_base_content,      \* the live agent's fields
    last_knowledge_update,
    pending_help_requests,
    last_help_requests_update,
    pending_requests,
    active_sessions,             \* module-level registry: caller id -> session
    conv,                        \* the conversations (entrypoint runs)
    esc,                         \* the escalate_to_supervisor call in progress
    hnd,                         \* handle_resolved_request calls on the live agent
    wh,                          \* the webhook request in progress
    attempts,                    \* history: generate_reply calls made per request id
    prevEsc,                     \* history: the escalation completed just before
    quiet,                       \* history: nothing else ran since it completed
    dup,                         \* check_duplicate_request applied to drawn inputs
    kbFetched,                   \* history: a knowledge fetch of the live agent succeeded
    hrFetched,                   \* history: a fetch of the pending help requests succeeded
    kbCall,                      \* the load_knowledge_base call in progress, or the last one
    hrCall,                      \* the load_pending_help_requests call in progress, or the last one
    kbLast,                      \* history: the load_knowledge_base call before kbCall
    loops,                       \* the two periodic refresh tasks
    server                       \* the webhook server's thread

callVars == <<kbCall, hrCall, kbLast, loops>>

vars == <<now, backend, kbEntries, webhook_secret, knowledge_base_content,
          last_knowledge_update, pending_help_requests, last_help_requests_update,
          pending_requests, active_sessions, conv, esc, hnd, wh, attempts,
          prevEsc, quiet, dup, kbFetched, hrFetched, callVars, server>>

agentVars == <<knowledge_base_content, last_knowledge_update, pending_help_requests,
               last_help_requests_update, pending_requests>>
kbVars == <<knowledge_base_content, last_knowledge_update>>
hrVars == <<pending_help_requests, last_help_requests_update>>

Handlers == 1..MaxHandlers
Convs == 1..MaxConv
\* the run of entrypoint that the specifications of a single conversation follow
OneConv == {1}
RequestIds == 1..MaxReq
TickSizes == {15, 30}

\* knowledge_base_content: "" | "KNOWLEDGE BASE: Empty" | the text of n entries
KbNone == [kind |-> "none", n |-> 0]
KbFallback == [kind |-> "fallback", n |-> 0]
KbText(n) == [kind |-> "text", n |-> n]

\* dict helpers
Has(d, k) == k \in DOMAIN d
Put(d, k, v) == [x \in DOMAIN d \cup {k} |-> IF x = k THEN v ELSE d[x]]
Del(d, k) == [x \in DOMAIN d \ {k} |-> d[x]]
EmptyDict == [x \in {} |-> 0]

\* the sequences that list every element of set S once
Orderings(S) ==
    {s \in [1..Cardinality(S) -> S] : \A i, j \in 1..Cardinality(S) : s[i] = s[j] => i = j}

\* GET /api/help-requests?status=PENDING: the pending requests, in the backend's order
PendingItems ==
    Orderings({[id |-> r.id, question |-> r.question, callerId |-> r.callerId] :
               r \in {b \in backend : b.status = "PENDING"}})

\* ------------------------------------------------------------- the caches

\* mutant: a fresh cache answers a forced call too
KbFetchWhenStale(force_refresh, content, last_update) ==
    \/ content = KbNone
    \/ now - last_update > knowledge_refresh_interval

\* mutant: every call fetches
KbAlwaysFetch(force_refresh, content, last_update) == TRUE

\* load_knowledge_base: forced, first load, or interval passed
KbNeedsFetch(force_refresh, content, last_update) ==
    \/ force_refresh
    \/ content = KbNone
    \/ now - last_update > knowledge_refresh_interval

\* mutant: zero entries leave the content empty
KbFormatEmpty(entries) == IF entries > 0 THEN KbText(entries) ELSE KbNone

\* load_knowledge_base on a 200 answer: the formatted entries, or the fallback text
KbFormat(entries) == IF entries > 0 THEN KbText(entries) ELSE KbFallback

\* load_pending_help_requests: forced, empty cache, or interval passed
HrNeedsFetch(force_refresh) ==
    \/ force_refresh
    \/ pending_help_requests = << >>
    \/ now - last_help_requests_update > help_requests_refresh_interval

\* ------------------------------------------------------ history bookkeeping

NoPrev == [kind |-> "none", id |-> 0, question |-> << >>, caller |-> NoCaller]
NoOutcome == [kind |-> "none", id |-> 0]

\* a step of anything but the escalation flow
Foreign == prevEsc' = NoPrev /\ quiet' = FALSE

\* a step of the escalation flow: quiet from the moment the call completes
EscQuiet == quiet' = (esc'.pc = "done" \/ quiet)
EscStep == UNCHANGED prevEsc /\ EscQuiet

\* --------------------------------------------------- the cache loads

\* how a backend GET ends: 200, another status, or an exception
Answers == {"ok", "status", "exception"}

\* what load_knowledge_base returns when nothing is cached and the GET failed
KbUnavailable == [kind |-> "unavailable", n |-> 0]
KbErrorLoading == [kind |-> "error", n |-> 0]

\* self.knowledge_base_content or "<sentinel>"
KbOr(content, sentinel) == IF content = KbNone THEN sentinel ELSE content

\* mutant: the sentinel returned on a failure is stored as the knowledge
KbResponseStoresSentinel(answer, content, last_update, current_time, entries) ==
    IF answer = "ok"
    THEN [content |-> KbFormat(entries), update |-> current_time, ret |-> KbFormat(entries)]
    ELSE [content |-> KbOr(content, KbUnavailable), update |-> last_update,
          ret |-> KbOr(content, KbUnavailable)]

\* mutant: a failed GET drops the cached knowledge
KbResponseDropsOnFailure(answer, content, last_update, current_time, entries) ==
    IF answer = "ok"
    THEN [content |-> KbFormat(entries), update |-> current_time, ret |-> KbFormat(entries)]
    ELSE [content |-> KbNone, update |-> last_update, ret |-> content]

\* load_knowledge_base lines 102-134, the GET having answered: the agent's
\* knowledge_base_content and last_knowledge_update, and the value returned
KbResponse(answer, content, last_update, current_time, entries) ==
    IF answer = "ok"
    THEN [content |-> KbFormat(entries), update |-> current_time, ret |-> KbFormat(entries)]
    ELSE IF answer = "status"
    THEN [content |-> content, update |-> last_update, ret |-> KbOr(content, KbUnavailable)]
    ELSE [content |-> content, update |-> last_update, ret |-> KbOr(content, KbErrorLoading)]

\* mutant: a failed GET empties the cached list
HrResponseDropsOnFailure(answer, cached, last_update, current_time, requests) ==
    IF answer = "ok"
    THEN [cached |-> requests, update |-> current_time, ret |-> requests]
    ELSE [cached |-> << >>, update |-> last_update, ret |-> cached]

\* load_pending_help_requests lines 188-205, the GET having answered with the
\* list `requests`: the agent's pending_help_requests and
\* last_help_requests_update, and the value returned (`cached or []` is `cached`
\* up to the identity of an empty list)
HrResponse(answer, cached, last_update, current_time, requests) ==
    IF answer = "ok"
    THEN [cached |-> requests, update |-> current_time, ret |-> requests]
    ELSE [cached |-> cached, update |-> last_update, ret |-> cached]

\* a load call: its position, its argument, current_time, the fetch timestamp it
\* read, how it was answered ("cached": without a GET) and what it returned;
\* history: whether a fetch had succeeded before the call, and the number of
\* session.get calls the call has made
IdleKbLoad == [pc |-> "idle", force |-> FALSE, t0 |-> 0, stamp |-> 0, had |-> FALSE,
               answer |-> "none", ret |-> KbNone, gets |-> 0]
IdleHrLoad == [pc |-> "idle", force |-> FALSE, t0 |-> 0, stamp |-> 0, had |-> FALSE,
               answer |-> "none", ret |-> << >>, gets |-> 0]

\* history: what is kept of the call before the current one
Earlier(call) == [call EXCEPT !.stamp = 0, !.had = FALSE]

\* load_knowledge_base(force_refresh) is called on the live agent: it answers from
\* the cache, or suspends in its GET
KbLoadBegin(force_refresh) ==
    /\ kbCall.pc \in {"idle", "done"}
    /\ kbLast' = Earlier(kbCall)
    /\ LET call == [pc |-> "fetch", force |-> force_refresh, t0 |-> now,
                    stamp |-> last_knowledge_update, had |-> kbFetched,
                    answer |-> "pending", ret |-> KbNone, gets |-> 1]
       IN  IF KbNeedsFetch(force_refresh, knowledge_base_content, last_knowledge_update)
           THEN kbCall' = call
           ELSE kbCall' = [call EXCEPT !.pc = "done", !.answer = "cached",
                                       !.ret = knowledge_base_content, !.gets = 0]
    /\ Foreign
    /\ UNCHANGED <<now, backend, kbEntries, webhook_secret, agentVars, active_sessions,
                   conv, esc, hnd, wh, attempts, dup, kbFetched, hrFetched, hrCall,
                   loops, server>>

\* the GET of load_knowledge_base answers and the call returns
KbLoadDone(answer) ==
    /\ kbCall.pc = "fetch"
    /\ LET r == KbResponse(answer, knowledge_base_content, last_knowledge_update,
                           kbCall.t0, kbEntries)
       IN  /\ knowledge_base_content' = r.content
           /\ last_knowledge_update' = r.update
           /\ kbCall' = [kbCall EXCEPT !.pc = "done", !.answer = answer, !.ret = r.ret]
    /\ kbFetched' = (kbFetched \/ answer = "ok")
    /\ Foreign
    /\ UNCHANGED <<now, backend, kbEntries, webhook_secret, hrVars, pending_requests,
                   active_sessions, conv, esc, hnd, wh, attempts, dup, hrFetched, kbLast,
                   hrCall, loops, server>>

\* load_pending_help_requests(force_refresh) is called on the live agent
HrLoadBegin(force_refresh) ==
    /\ hrCall.pc \in {"idle", "done"}
    /\ LET call == [pc |-> "fetch", force |-> force_refresh, t0 |-> now,
                    stamp |-> last_help_requests_update, had |-> hrFetched,
                    answer |-> "pending", ret |-> << >>, gets |-> 1]
       IN  IF HrNeedsFetch(force_refresh)
           THEN hrCall' = call
           ELSE hrCall' = [call EXCEPT !.pc = "done", !.answer = "cached",
                                       !.ret = pending_help_requests, !.gets = 0]
    /\ Foreign
    /\ UNCHANGED <<now, backend, kbEntries, webhook_secret, agentVars, active_sessions,
                   conv, esc, hnd, wh, attempts, dup, kbFetched, hrFetched, kbCall,
                   kbLast, loops, server>>

\* the GET of load_pending_help_requests answers and the call returns
HrLoadDone(answer) ==
    /\ hrCall.pc = "fetch"
    /\ \E requests \in PendingItems :
          LET r == HrResponse(answer, pending_help_requests, last_help_requests_update,
                              hrCall.t0, requests)
          IN  /\ pending_help_requests' = r.cached
              /\ last_help_requests_update' = r.update
              /\ hrCall' = [hrCall EXCEPT !.pc = "done", !.answer = answer, !.ret = r.ret]
    /\ hrFetched' = (hrFetched \/ answer = "ok")
    /\ Foreign
    /\ UNCHANGED <<now, backend, kbEntries, webhook_secret, kbVars, pending_requests,
                   active_sessions, conv, esc, hnd, wh, attempts, dup, kbFetched, kbCall,
                   kbLast, loops, server>>

\* ------------------------------------------------------ the refresh loops

\* refresh_knowledge_base_periodically, refresh_help_requests_periodically
LoopNames == {"kb", "hr"}

Interval(l) == IF l = "kb" THEN knowledge_refresh_interval ELSE help_requests_refresh_interval

\* a task: its position, when its sleep ends, the current_time of its load, and
\* history: task.cancel() was called on it, an attempt of it failed
NotStarted == [pc |-> "off", wake |-> 0, t0 |-> 0, cancelled |-> FALSE, failed |-> FALSE]

\* how a loop's forced load ends: the GET's answers, which the load absorbs, or an
\* exception that escapes the load
Outcomes == Answers \cup {"unexpected"}

\* mutant: the retry sleep lasts half the time
LoopAfterShortBackoff(l, outcome) ==
    IF outcome = "unexpected"
    THEN [pc |-> "backoff", wake |-> now + (retry_delay \div 2)]
    ELSE [pc |-> "sleep", wake |-> now + Interval(l)]

\* mutant: an exception that escapes the load ends the loop
LoopAfterStopsOnError(l, outcome) ==
    IF outcome = "unexpected"
    THEN [pc |-> "stopped", wake |-> 0]
    ELSE [pc |-> "sleep", wake |-> now + Interval(l)]

\* lines 143-155 and 160-172 after the load: the next sleep of the cycle, or the
\* retry sleep of the `except Exception` branch
LoopAfter(l, outcome) ==
    IF outcome = "unexpected"
    THEN [pc |-> "backoff", wake |-> now + retry_delay]
    ELSE [pc |-> "sleep", wake |-> now + Interval(l)]

\* entrypoint lines 667-668: asyncio.create_task; the task sleeps for its interval
LoopStart(l) ==
    /\ loops[l].pc = "off"
    /\ loops' = [loops EXCEPT ![l].pc = "sleep", ![l].wake = now + Interval(l)]
    /\ Foreign
    /\ UNCHANGED <<now, backend, kbEntries, webhook_secret, agentVars, active_sessions,
                   conv, esc, hnd, wh, attempts, dup, kbFetched, hrFetched, kbCall,
                   hrCall, kbLast, server>>

\* a task suspended in one of its awaits
Running == {"sleep", "load", "backoff"}

\* mutant: a sleep ends only while the other task is not in its load
DueAlone(l) ==
    /\ now >= loops[l].wake
    /\ \A m \in LoopNames \ {l} : loops[m].pc # "load"

\* await asyncio.sleep(...) returns
Due(l) == now >= loops[l].wake

\* the sleep is over: the forced load reads the clock and suspends in its GET
LoopWake(l) ==
    /\ loops[l].pc = "sleep"
    /\ ~loops[l].cancelled
    /\ Due(l)
    /\ loops' = [loops EXCEPT ![l].pc = "load", ![l].t0 = now]
    /\ Foreign
    /\ UNCHANGED <<now, backend, kbEntries, webhook_secret, agentVars, active_sessions,
                   conv, esc, hnd, wh, attempts, dup, kbFetched, hrFetched, kbCall,
                   hrCall, kbLast, server>>

\* the forced load of a loop ends
LoopLoadDone(l, outcome) ==
    /\ loops[l].pc = "load"
    /\ ~loops[l].cancelled
    /\ LET answer == IF outcome = "unexpected" THEN "exception" ELSE outcome
           after == LoopAfter(l, outcome)
       IN  /\ IF l = "kb"
              THEN LET r == KbResponse(answer, knowledge_base_content,
                                       last_knowledge_update, loops[l].t0, kbEntries)
                   IN  /\ knowledge_base_content' = r.content
                       /\ last_knowledge_update' = r.update
                       /\ kbFetched' = (kbFetched \/ answer = "ok")
                       /\ UNCHANGED <<hrVars, hrFetched>>
              ELSE \E requests \in PendingItems :
                       LET r == HrResponse(answer, pending_help_requests,
                                           last_help_requests_update, loops[l].t0, requests)
                       IN  /\ pending_help_requests' = r.cached
                           /\ last_help_requests_update' = r.update
                           /\ hrFetched' = (hrFetched \/ answer = "ok")
                           /\ UNCHANGED <<kbVars, kbFetched>>
           /\ loops' = [loops EXCEPT ![l].pc = after.pc, ![l].wake = after.wake,
                                     ![l].t0 = 0,
                                     ![l].failed = (@ \/ outcome # "ok")]
    /\ Foreign
    /\ UNCHANGED <<now, backend, kbEntries, webhook_secret, pending_requests,
                   active_sessions, conv, esc, hnd, wh, attempts, dup, kbCall, hrCall,
                   kbLast, server>>

\* the retry sleep is over: the next cycle begins with the interval's sleep
LoopRetry(l) ==
    /\ loops[l].pc = "backoff"
    /\ ~loops[l].cancelled
    /\ Due(l)
    /\ loops' = [loops EXCEPT ![l].pc = "sleep", ![l].wake = now + Interval(l)]
    /\ Foreign
    /\ UNCHANGED <<now, backend, kbEntries, webhook_secret, agentVars, active_sessions,
                   conv, esc, hnd, wh, attempts, dup, kbFetched, hrFetched, kbCall,
                   hrCall, kbLast, server>>

\* task.cancel() on a set of tasks: a task that has not ended is marked, and its
\* next step is the CancelledError
Cancel(tasks, names) ==
    [l \in LoopNames |->
        IF l \in names /\ tasks[l].pc \in Running
        THEN [tasks[l] EXCEPT !.cancelled = TRUE]
        ELSE tasks[l]]

\* task.cancel() is called on a task (entrypoint lines 685-686)
LoopCancel(l) ==
    /\ loops[l].pc \in Running
    /\ ~loops[l].cancelled
    /\ loops' = Cancel(loops, {l})
    /\ Foreign
    /\ UNCHANGED <<now, backend, kbEntries, webhook_secret, agentVars, active_sessions,
                   conv, esc, hnd, wh, attempts, dup, kbFetched, hrFetched, kbCall,
                   hrCall, kbLast, server>>

\* the awaits a CancelledError is raised at: the sleeps, and the forced load, whose
\* `except Exception` does not catch it
ExitPoints == Running

\* the cancelled task resumes with CancelledError at its await: `except
\* asyncio.CancelledError: break` ends the loop (in the retry sleep the error
\* ends the task directly); a load in progress is abandoned, nothing is stored
LoopExit(l) ==
    /\ loops[l].cancelled
    /\ loops[l].pc \in ExitPoints
    /\ loops' = [loops EXCEPT ![l].pc = "stopped", ![l].wake = 0, ![l].t0 = 0]
    /\ Foreign
    /\ UNCHANGED <<now, backend, kbEntries, webhook_secret, agentVars, active_sessions,
                   conv, esc, hnd, wh, attempts, dup, kbFetched, hrFetched, kbCall,
                   hrCall, kbLast, server>>

\* ------------------------------------------------- escalate_to_supervisor

\* a call of the tool or of create_help_request; history: how its POST was answered
IdleEsc == [pc |-> "idle", question |-> << >>, caller |-> NoCaller, t0 |-> 0,
            outcome |-> NoOutcome, answer |-> "none"]

\* mutant: the create call is made whatever the duplicate check says
AfterLoadCreatesAnyway(question, caller_id, cache) ==
    LET duplicate_check == check_duplicate_request(cache, question, caller_id)
        call == [pc |-> "done", question |-> question, caller |-> caller_id, t0 |-> 0,
                 outcome |-> NoOutcome, answer |-> "none"]
    IN  IF duplicate_check.raised
        THEN [call EXCEPT !.outcome = [kind |-> "Failed", id |-> 0]]
        ELSE [call EXCEPT !.pc = "create"]

\* mutant: an exception of the duplicate check escapes the tool
AfterLoadRaises(question, caller_id, cache) ==
    LET duplicate_check == check_duplicate_request(cache, question, caller_id)
        call == [pc |-> "done", question |-> question, caller |-> caller_id, t0 |-> 0,
                 outcome |-> NoOutcome, answer |-> "none"]
    IN  IF duplicate_check.raised
        THEN [call EXCEPT !.pc = "raised"]
        ELSE IF duplicate_check.is_duplicate
        THEN [call EXCEPT !.outcome =
                  [kind |-> "Duplicate", id |-> duplicate_check.existing_request.id]]
        ELSE [call EXCEPT !.pc = "create"]

\* lines 515-534: the duplicate check on the cache, then the create call begins;
\* an exception of the check is caught at line 556 and answered with a message
AfterLoad(question, caller_id, cache) ==
    LET duplicate_check == check_duplicate_request(cache, question, caller_id)
        call == [pc |-> "done", question |-> question, caller |-> caller_id, t0 |-> 0,
                 outcome |-> NoOutcome, answer |-> "none"]
    IN  IF duplicate_check.raised
        THEN [call EXCEPT !.outcome = [kind |-> "Failed", id |-> 0]]
        ELSE IF duplicate_check.is_duplicate
        THEN [call EXCEPT !.outcome =
                  [kind |-> "Duplicate", id |-> duplicate_check.existing_request.id]]
        ELSE [call EXCEPT !.pc = "create"]

\* the tool is called: load_pending_help_requests() answers from the cache, or
\* suspends in its GET
EscalateBegin(question, caller_id) ==
    /\ esc.pc \in {"idle", "done"}
    /\ prevEsc' = IF esc.pc = "done" /\ quiet
                  THEN [kind |-> esc.outcome.kind, id |-> esc.outcome.id,
                        question |-> esc.question, caller |-> esc.caller]
                  ELSE NoPrev
    /\ IF HrNeedsFetch(FALSE)
       THEN esc' = [pc |-> "fetch", question |-> question, caller |-> caller_id,
                    t0 |-> now, outcome |-> NoOutcome, answer |-> "none"]
       ELSE esc' = AfterLoad(question, caller_id, pending_help_requests)
    /\ EscQuiet
    /\ UNCHANGED <<now, backend, kbEntries, webhook_secret, agentVars, active_sessions,
                   conv, hnd, wh, attempts, dup, kbFetched, hrFetched, callVars, server>>

\* the GET of load_pending_help_requests answers (200, or not / an exception)
EscalateFetchDone(ok) ==
    /\ esc.pc = "fetch"
    /\ IF ok
       THEN \E requests \in PendingItems :
               /\ pending_help_requests' = requests
               /\ last_help_requests_update' = esc.t0
               /\ esc' = AfterLoad(esc.question, esc.caller, requests)
       ELSE /\ UNCHANGED hrVars
            /\ esc' = AfterLoad(esc.question, esc.caller, pending_help_requests)
    /\ hrFetched' = (hrFetched \/ ok)
    /\ EscStep
    /\ UNCHANGED <<now, backend, kbEntries, webhook_secret, kbVars, pending_requests,
                   active_sessions, conv, hnd, wh, attempts, dup, kbFetched, callVars, server>>

\* the number of requests this agent created: the backend numbers them 1, 2, ...
Created == Cardinality({r \in backend : r.id > 0})

\* create_help_request(question, caller_id) is called on the live agent and
\* suspends in its POST
CreateBegin(question, caller_id) ==
    /\ esc.pc \in {"idle", "done"}
    /\ esc' = [pc |-> "create", question |-> question, caller |-> caller_id,
               t0 |-> 0, outcome |-> NoOutcome, answer |-> "none"]
    /\ Foreign
    /\ UNCHANGED <<now, backend, kbEntries, webhook_secret, agentVars, active_sessions,
                   conv, hnd, wh, attempts, dup, kbFetched, hrFetched, callVars, server>>

\* result.get("id") of a 201 body that carries no id
NoId == 0

\* how the POST of create_help_request ends: 201 with the new request's id, 201
\* with a body that carries no id, or another status / an exception
CreateAnswers == {"created", "unidentified", "failed"}

\* mutant: a request of an unknown caller is tracked too
RegisteredAnyCaller(requests, request_id, caller_id, question) ==
    IF request_id # NoId
    THEN Put(requests, request_id, [caller_id |-> caller_id, question |-> question])
    ELSE requests

\* create_help_request lines 320-326: pending_requests after a 201
Registered(requests, request_id, caller_id, question) ==
    IF request_id # NoId /\ caller_id # NoCaller
    THEN Put(requests, request_id, [caller_id |-> caller_id, question |-> question])
    ELSE requests

\* the POST of create_help_request answers; the call returns request_id, or None
\* (lines 315-336), and the tool turns that into its message (lines 536-554)
CreateDone(answer) ==
    /\ esc.pc = "create"
    /\ answer # "failed" => Created < MaxReq
    /\ IF answer # "failed"
       THEN LET new == Created + 1
                request_id == IF answer = "created" THEN new ELSE NoId
            IN  /\ backend' = backend \cup
                       {[id |-> new, question |-> esc.question,
                         callerId |-> esc.caller, status |-> "PENDING"]}
                /\ pending_requests' =
                       Registered(pending_requests, request_id, esc.caller, esc.question)
                /\ esc' = [esc EXCEPT
                              !.pc = "done", !.answer = answer,
                              !.outcome = IF request_id # NoId
                                          THEN [kind |-> "Created", id |-> request_id]
                                          ELSE [kind |-> "Failed", id |-> 0]]
       ELSE /\ UNCHANGED <<backend, pending_requests>>
            /\ esc' = [esc EXCEPT !.pc = "done", !.answer = answer,
                                  !.outcome = [kind |-> "Failed", id |-> 0]]
    /\ EscStep
    /\ UNCHANGED <<now, kbEntries, webhook_secret, kbVars, hrVars, active_sessions,
                   conv, hnd, wh, attempts, dup, kbFetched, hrFetched, callVars, server>>

\* the POST answers 201 with a new id, or not / an exception
EscalateCreateDone(ok) == CreateDone(IF ok THEN "created" ELSE "failed")

\* ------------------------------------------------- handle_resolved_request

IdleCall == [pc |-> "idle", id |-> 0, key |-> NoCaller, case |-> "none",
             injects |-> 0, reply |-> "none", t0 |-> 0]

\* history: the situation a handle_resolved_request call was made in
\*   unknown       the agent does not track the request
\*   no_session    tracked; no session is registered under the event's callerId
\*   own_session   tracked; a session is registered under the event's callerId,
\*                 which is the caller id recorded with the request
\*   other_session tracked; a session is registered under the event's callerId,
\*                 which is not the caller id recorded with the request
CallCase(request_id, event_caller) ==
    IF ~Has(pending_requests, request_id) THEN "unknown"
    ELSE IF ~Has(active_sessions, event_caller) THEN "no_session"
    ELSE IF pending_requests[request_id].caller_id = event_caller THEN "own_session"
    ELSE "other_session"

\* line 370: the registry key under which the session to answer is looked up
DeliveryKey(pending_info, event_caller) == event_caller

\* line 366: the request is one this agent tracks
IsPending(requests, request_id) == Has(requests, request_id)

\* mutant: the entry is deleted only on the branch that found a session
HandleEntryKeepUnregistered(requests, request_id, event_caller) ==
    IF Has(requests, request_id) /\ Has(active_sessions, event_caller)
    THEN [pc |-> "inject", requests |-> requests, key |-> event_caller]
    ELSE [pc |-> "kbfetch", requests |-> requests, key |-> NoCaller]

\* mutant: the del of line 386 runs for an untracked request too
HandleEntryDelAlways(requests, request_id, event_caller) ==
    IF Has(requests, request_id)
    THEN IF Has(active_sessions, event_caller)
         THEN [pc |-> "inject", requests |-> requests, key |-> event_caller]
         ELSE [pc |-> "kbfetch", requests |-> Del(requests, request_id), key |-> NoCaller]
    ELSE [pc |-> "raised", requests |-> requests, key |-> NoCaller]

\* lines 358-386 up to the first suspension, for an agent whose pending_requests
\* is `requests`: the call's next position, the agent's pending_requests, and
\* the key of the session generate_reply is called on
HandleEntry(requests, request_id, event_caller) ==
    IF IsPending(requests, request_id)
    THEN LET caller_id == DeliveryKey(requests[request_id], event_caller)
         IN  IF Has(active_sessions, caller_id)
             THEN [pc |-> "inject", requests |-> requests, key |-> caller_id]
             ELSE [pc |-> "kbfetch", requests |-> Del(requests, request_id),
                   key |-> NoCaller]
    ELSE [pc |-> "kbfetch", requests |-> requests, key |-> NoCaller]

\* handle_resolved_request(request_data) is called on the live agent. History
\* kept with the call: the case it was made in, the number of generate_reply
\* calls it made and how the last one ended
HandleBegin(h, request_id, event_caller) ==
    /\ hnd[h].pc \in {"idle", "done", "raised"}
    /\ LET e == HandleEntry(pending_requests, request_id, event_caller)
       IN  /\ hnd' = [hnd EXCEPT ![h] =
                        [pc |-> e.pc, id |-> request_id, key |-> e.key,
                         case |-> CallCase(request_id, event_caller),
                         injects |-> IF e.pc = "inject" THEN 1 ELSE 0,
                         reply |-> IF e.pc = "inject" THEN "running" ELSE "none",
                         t0 |-> IF e.pc = "kbfetch" THEN now ELSE 0]]
           /\ pending_requests' = e.requests
           /\ attempts' = IF e.pc = "inject"
                          THEN [attempts EXCEPT ![request_id] = @ + 1]
                          ELSE attempts
    /\ Foreign
    /\ UNCHANGED <<now, backend, kbEntries, webhook_secret, kbVars, hrVars,
                   active_sessions, conv, esc, wh, dup, kbFetched, hrFetched, callVars, server>>

\* mutant: the call returns after the injection, without the knowledge refresh
AfterInjectSkipsRefresh(requests, request_id) ==
    [pc |-> "done", requests |-> Del(requests, request_id)]

\* mutant: the entry is not deleted after the injection
AfterInjectKeep(requests, request_id) == [pc |-> "kbfetch", requests |-> requests]

\* line 386 after the injection: del self.pending_requests[request_id], a KeyError
\* when the entry is gone
AfterInject(requests, request_id) ==
    IF Has(requests, request_id)
    THEN [pc |-> "kbfetch", requests |-> Del(requests, request_id)]
    ELSE [pc |-> "raised", requests |-> requests]

\* session.generate_reply returns or raises (the exception is logged), then the
\* entry is deleted and the forced load_knowledge_base suspends in its GET
HandleInjectDone(h, delivered) ==
    /\ hnd[h].pc = "inject"
    /\ LET a == AfterInject(pending_requests, hnd[h].id)
       IN  /\ hnd' = [hnd EXCEPT ![h].pc = a.pc,
                                 ![h].key = NoCaller,
                                 ![h].reply = IF delivered THEN "spoken" ELSE "failed",
                                 ![h].t0 = IF a.pc = "kbfetch" THEN now ELSE 0]
           /\ pending_requests' = a.requests
    /\ Foreign
    /\ UNCHANGED <<now, backend, kbEntries, webhook_secret, kbVars, hrVars,
                   active_sessions, conv, esc, wh, attempts, dup, kbFetched, hrFetched, callVars, server>>

\* the GET of the forced load_knowledge_base answers; the call returns
HandleKbDone(h, ok) ==
    /\ hnd[h].pc = "kbfetch"
    /\ IF ok
       THEN /\ knowledge_base_content' = KbFormat(kbEntries)
            /\ last_knowledge_update' = hnd[h].t0
       ELSE UNCHANGED kbVars
    /\ kbFetched' = (kbFetched \/ ok)
    /\ hnd' = [hnd EXCEPT ![h].pc = "done", ![h].t0 = 0]
    /\ Foreign
    /\ UNCHANGED <<now, backend, kbEntries, webhook_secret, hrVars, pending_requests,
                   active_sessions, conv, esc, wh, attempts, dup, hrFetched,
                   callVars, server>>

\* ------------------------------------------------------------ the webhook

NoSecret == ""
Secret == "s3cret"
\* data.get("type") of a body without the field
NoType == ""
NoBody == [type |-> NoType, requestId |-> 0, callerId |-> NoCaller]

\* hmac.new(key, payload, sha256).hexdigest(), taken as injective in (key, payload)
HmacHex(key, payload) == [key |-> key, payload |-> payload]

\* an X-Webhook-Signature value: `prefixes` leading "sha256=", then a text that
\* is a hex digest, or the empty text of NoSignature; `ascii`: the value holds
\* ASCII characters only
NoSignature == [prefixes |-> 0, hex |-> HmacHex("", NoBody), ascii |-> TRUE]
Signed(prefixes, key, payload) ==
    [prefixes |-> prefixes, hex |-> HmacHex(key, payload), ascii |-> TRUE]
\* "sha256=" followed by a text with a non-ASCII character
NonAscii == [prefixes |-> 1, hex |-> HmacHex("", NoBody), ascii |-> FALSE]

\* mutant: the prefix is kept
StripNothing(signature) == signature

\* lines 351-352: one leading 'sha256=' is removed
StripPrefix(signature) ==
    IF signature.prefixes > 0
    THEN [signature EXCEPT !.prefixes = signature.prefixes - 1]
    ELSE signature

\* hmac.compare_digest on two str: TypeError unless both are ASCII
compare_digest(a, b) ==
    IF ~a.ascii \/ ~b.ascii THEN "TypeError"
    ELSE IF a = b THEN "True" ELSE "False"

\* mutant: the signature is compared also when no secret is configured
VerifyAlways(secret, payload, signature) ==
    compare_digest(Signed(0, secret, payload), StripPrefix(signature))

\* mutant: the signature is not looked at
VerifySkipped(secret, payload, signature) == "True"

\* what the call returns ("True", "False") or raises ("TypeError")
verify_webhook_signature(secret, payload, signature) ==
    IF secret = NoSecret THEN "True"
    ELSE compare_digest(Signed(0, secret, payload), StripPrefix(signature))

Payloads ==
    [type : {"help_request_resolved", "other", NoType}, requestId : RequestIds,
     callerId : Callers]

\* what a sender may put in the header of `payload`
SignaturesFor(payload) ==
    {NoSignature, Signed(0, Secret, payload), Signed(1, Secret, payload),
     Signed(2, Secret, payload), Signed(1, "wrong", payload),
     Signed(1, Secret, [payload EXCEPT !.type = "tampered"]), NonAscii}

\* a webhook request: its position, the body's fields and the header it
\* carried, the response's status and requestId; history: the signature check's
\* result, whether the body was parsed, how the knowledge refresh ended, and
\* whether the live agent tracked the id / had the caller's session on arrival
IdleWebhook == [pc |-> "idle", id |-> 0, caller |-> NoCaller, type |-> NoType,
                signature |-> NoSignature, status |-> 0, echo |-> 0, t0 |-> 0,
                verdict |-> "none", parsed |-> FALSE, refresh |-> "none",
                liveKnown |-> FALSE, liveSession |-> FALSE]

\* line 406: the pending_requests of the agent the handler delivers against, a
\* VoiceReceptionistAgent() constructed for this request
WebhookAgentRequests == EmptyDict

\* mutant: every type is handled as a resolution
AnyTypeResolved(webhook_type) == TRUE

\* line 416
IsResolvedType(webhook_type) == webhook_type = "help_request_resolved"

\* mutant: a failed knowledge refresh fails the request
ResolvedResponseNeedsRefresh(request_id, refreshed) ==
    IF refreshed THEN [status |-> 200, echo |-> request_id]
    ELSE [status |-> 500, echo |-> 0]

\* lines 417-418: handle_resolved_request has returned (its knowledge refresh
\* absorbs its own failure); the JSON response carries data.get("requestId")
ResolvedResponse(request_id, refreshed) == [status |-> 200, echo |-> request_id]

\* webhook_handler up to its first suspension after reading the body: 500 when
\* the signature check raises, 401, 400, or handle_resolved_request on its
\* agent, which suspends in the forced load_knowledge_base (that agent tracks
\* no request, so nothing is injected)
WebhookBegin(payload, signature) ==
    /\ wh.pc = "idle"
    /\ LET verdict == verify_webhook_signature(webhook_secret, payload, signature)
           request == [IdleWebhook EXCEPT !.id = payload.requestId,
                                          !.caller = payload.callerId,
                                          !.type = payload.type,
                                          !.signature = signature,
                                          !.verdict = verdict,
                                          !.liveKnown = Has(pending_requests, payload.requestId),
                                          !.liveSession = Has(active_sessions, payload.callerId)]
           e == HandleEntry(WebhookAgentRequests, payload.requestId, payload.callerId)
       IN  IF verdict = "TypeError"
           THEN wh' = [request EXCEPT !.pc = "done", !.status = 500]
           ELSE IF verdict = "False"
           THEN wh' = [request EXCEPT !.pc = "done", !.status = 401]
           ELSE IF ~IsResolvedType(payload.type)
           THEN wh' = [request EXCEPT !.pc = "done", !.status = 400, !.parsed = TRUE]
           ELSE /\ e.pc = "kbfetch"
                /\ wh' = [request EXCEPT !.pc = "kbfetch", !.t0 = now, !.parsed = TRUE]
    /\ Foreign
    /\ UNCHANGED <<now, backend, kbEntries, webhook_secret, agentVars, active_sessions,
                   conv, esc, hnd, attempts, dup, kbFetched, hrFetched, callVars, server>>

\* the GET of the request agent's load_knowledge_base answers (that agent is
\* dropped with the request), and the handler responds
WebhookKbDone(ok) ==
    /\ wh.pc = "kbfetch"
    /\ LET response == ResolvedResponse(wh.id, ok)
       IN  wh' = [wh EXCEPT !.pc = "done", !.status = response.status,
                            !.echo = response.echo, !.t0 = 0,
                            !.refresh = IF ok THEN "ok" ELSE "failed"]
    /\ Foreign
    /\ UNCHANGED <<now, backend, kbEntries, webhook_secret, agentVars, active_sessions,
                   conv, esc, hnd, attempts, dup, kbFetched, hrFetched, callVars, server>>

\* the response has been written: the request is over
WebhookClose ==
    /\ wh.pc = "done"
    /\ wh' = IdleWebhook
    /\ Foreign
    /\ UNCHANGED <<now, backend, kbEntries, webhook_secret, agentVars, active_sessions,
                   conv, esc, hnd, attempts, dup, kbFetched, hrFetched, callVars, server>>

\* ------------------------------------------------------------ environment

NewConv == [pc |-> "new", caller |-> NoCaller]

\* entrypoint lines 664-682 with session.start and the greeting succeeding, the
\* refresh tasks left aside: the session is registered and the conversation runs
ConvRegister(k, caller_id) ==
    /\ conv[k].pc = "new"
    /\ active_sessions' = Put(active_sessions, caller_id, k)
    /\ conv' = [conv EXCEPT ![k] = [pc |-> "live", caller |-> caller_id]]
    /\ Foreign
    /\ UNCHANGED <<now, backend, kbEntries, webhook_secret, agentVars, esc, hnd, wh,
                   attempts, dup, kbFetched, hrFetched, callVars, server>>

\* entrypoint lines 683-697, the refresh tasks left aside:
\* if caller_id in active_sessions: del active_sessions[caller_id];
\* the slot is free for the next conversation
ConvEnd(k) ==
    /\ conv[k].pc = "live"
    /\ active_sessions' = IF Has(active_sessions, conv[k].caller)
                          THEN Del(active_sessions, conv[k].caller)
                          ELSE active_sessions
    /\ conv' = [conv EXCEPT ![k] = NewConv]
    /\ Foreign
    /\ UNCHANGED <<now, backend, kbEntries, webhook_secret, agentVars, esc, hnd, wh,
                   attempts, dup, kbFetched, hrFetched, callVars, server>>

\* entrypoint step by step, with the refresh tasks it owns. A conversation is
\*   starting   suspended in session.start (line 671), session registered, tasks created
\*   greeting   suspended in the greeting's generate_reply (line 674)
\*   live       suspended in asyncio.Future() inside the try (line 682)
\*   joinKb     both tasks cancelled, suspended in `await kb_refresh_task` (line 688)
\*   joinHr     suspended in `await hr_refresh_task` (line 692)
\*   ended      returned after the cleanup of lines 696-697
\*   failed     left by an exception that nothing in entrypoint catches

\* entrypoint lines 664-671: the session is registered, both refresh tasks are
\* created and begin their first sleep, and session.start is awaited
ConvStart(k, caller_id) ==
    /\ conv[k].pc = "new"
    /\ \A l \in LoopNames : loops[l].pc = "off"
    /\ active_sessions' = Put(active_sessions, caller_id, k)
    /\ loops' = [l \in LoopNames |->
                    [loops[l] EXCEPT !.pc = "sleep", !.wake = now + Interval(l)]]
    /\ conv' = [conv EXCEPT ![k] = [pc |-> "starting", caller |-> caller_id]]
    /\ Foreign
    /\ UNCHANGED <<now, backend, kbEntries, webhook_secret, agentVars, esc, hnd, wh,
                   attempts, dup, kbFetched, hrFetched, kbCall, hrCall, kbLast, server>>

\* session.start returns, or raises: lines 671 and 674 are outside the try of
\* line 681, so the exception leaves entrypoint
ConvStarted(k, ok) ==
    /\ conv[k].pc = "starting"
    /\ conv' = [conv EXCEPT ![k].pc = IF ok THEN "greeting" ELSE "failed"]
    /\ Foreign
    /\ UNCHANGED <<now, backend, kbEntries, webhook_secret, agentVars, active_sessions,
                   esc, hnd, wh, attempts, dup, kbFetched, hrFetched, callVars, server>>

\* the greeting's generate_reply returns, or raises
ConvGreeted(k, ok) ==
    /\ conv[k].pc = "greeting"
    /\ conv' = [conv EXCEPT ![k].pc = IF ok THEN "live" ELSE "failed"]
    /\ Foreign
    /\ UNCHANGED <<now, backend, kbEntries, webhook_secret, agentVars, active_sessions,
                   esc, hnd, wh, attempts, dup, kbFetched, hrFetched, callVars, server>>

\* entrypoint is cancelled: CancelledError is raised at its await. Inside the try
\* (line 682) the handler cancels both tasks and awaits the first (lines
\* 683-688); at lines 671 and 674 nothing catches it
ConvCancelled(k) ==
    /\ conv[k].pc \in {"starting", "greeting", "live"}
    /\ IF conv[k].pc = "live"
       THEN /\ loops' = Cancel(loops, LoopNames)
            /\ conv' = [conv EXCEPT ![k].pc = "joinKb"]
       ELSE /\ UNCHANGED loops
            /\ conv' = [conv EXCEPT ![k].pc = "failed"]
    /\ Foreign
    /\ UNCHANGED <<now, backend, kbEntries, webhook_secret, agentVars, active_sessions,
                   esc, hnd, wh, attempts, dup, kbFetched, hrFetched, kbCall, hrCall,
                   kbLast, server>>

\* mutant: awaiting a task returns at once
JoinedAtOnce(l) == loops[l].pc \in Running \cup {"stopped"}

\* `await task` returns (or raises the task's CancelledError, which lines 689
\* and 693 pass over): the task has ended
Joined(l) == loops[l].pc = "stopped"

\* lines 687-691: the knowledge task has ended, the escalation task is awaited
ConvJoinKb(k) ==
    /\ conv[k].pc = "joinKb"
    /\ Joined("kb")
    /\ conv' = [conv EXCEPT ![k].pc = "joinHr"]
    /\ Foreign
    /\ UNCHANGED <<now, backend, kbEntries, webhook_secret, agentVars, active_sessions,
                   esc, hnd, wh, attempts, dup, kbFetched, hrFetched, callVars, server>>

\* lines 691-697: the escalation task has ended; the session is unregistered
\* and entrypoint returns
ConvLeave(k) ==
    /\ conv[k].pc = "joinHr"
    /\ Joined("hr")
    /\ active_sessions' = IF Has(active_sessions, conv[k].caller)
                          THEN Del(active_sessions, conv[k].caller)
                          ELSE active_sessions
    /\ conv' = [conv EXCEPT ![k].pc = "ended"]
    /\ Foreign
    /\ UNCHANGED <<now, backend, kbEntries, webhook_secret, agentVars, esc, hnd, wh,
                   attempts, dup, kbFetched, hrFetched, callVars, server>>

\* the webhook server: "off" until entrypoint starts it, then "running". Its
\* coroutine would clean the runner up on a CancelledError (lines 459-461), but
\* the thread, its event loop and the runner are known to run_server alone and
\* the thread returned at line 468 is dropped by entrypoint (line 572): no
\* operation of the program cancels it, so no action leads to a stopped server

\* entrypoint line 572: start_webhook_server starts the daemon thread, which
\* sets the runner up and listens (lines 443-458)
ServerStart ==
    /\ server = "off"
    /\ server' = "running"
    /\ Foreign
    /\ UNCHANGED <<now, backend, kbEntries, webhook_secret, agentVars, active_sessions,
                   conv, esc, hnd, wh, attempts, dup, kbFetched, hrFetched, callVars>>

\* a supervisor resolves a pending request; with learn the answer joins the corpus
BackendResolve(request_id, learn) ==
    /\ \E r \in backend :
          /\ r.id = request_id
          /\ r.status = "PENDING"
          /\ backend' = (backend \ {r}) \cup {[r EXCEPT !.status = "RESOLVED"]}
    /\ kbEntries' = IF learn /\ kbEntries < MaxKb THEN kbEntries + 1 ELSE kbEntries
    /\ Foreign
    /\ UNCHANGED <<now, webhook_secret, agentVars, active_sessions, conv, esc, hnd, wh,
                   attempts, dup, kbFetched, hrFetched, callVars, server>>

\* the event loop's clock advances by d, up to `limit`
Advance(d, limit) ==
    /\ now + d <= limit
    /\ now' = now + d
    /\ Foreign
    /\ UNCHANGED <<backend, kbEntries, webhook_secret, agentVars, active_sessions,
                   conv, esc, hnd, wh, attempts, dup, kbFetched, hrFetched, callVars, server>>

Tick(d) == Advance(d, MaxTime)

\* ------------------------------------------------------- specifications

IdleDup == [cache |-> << >>, question |-> << >>, caller_id |-> NoCaller,
            checked |-> FALSE, result |-> NotDuplicate]

\* a request the backend holds from before this process started
OtherRequest == [id |-> 0, question |-> QReturn, callerId |-> "c2", status |-> "PENDING"]

\* the agent as __init__ leaves it, no session registered
Constructed(entries, secret, requests) ==
    /\ now = 0
    /\ backend = requests
    /\ kbEntries = entries
    /\ webhook_secret = secret
    /\ knowledge_base_content = KbNone
    /\ last_knowledge_update = 0
    /\ pending_help_requests = << >>
    /\ last_help_requests_update = 0
    /\ pending_requests = EmptyDict
    /\ active_sessions = EmptyDict
    /\ conv = [k \in Convs |-> NewConv]
    /\ esc = IdleEsc
    /\ hnd = [h \in Handlers |-> IdleCall]
    /\ wh = IdleWebhook
    /\ attempts = [id \in RequestIds |-> 0]
    /\ prevEsc = NoPrev
    /\ quiet = FALSE
    /\ kbFetched = FALSE
    /\ hrFetched = FALSE
    /\ kbCall = IdleKbLoad
    /\ hrCall = IdleHrLoad
    /\ kbLast = IdleKbLoad
    /\ loops = [l \in LoopNames |-> NotStarted]
    /\ server = "off"

Init ==
    /\ \E entries \in 0..MaxKb, secret \in {NoSecret, Secret} : Constructed(entries, secret, {})
    /\ dup = IdleDup

EscalateNext ==
    \/ \E q \in Questions, c \in CallerIds : EscalateBegin(q, c)
    \/ \E ok \in BOOLEAN : EscalateFetchDone(ok)
    \/ \E ok \in BOOLEAN : EscalateCreateDone(ok)

CreateNext ==
    \/ \E c \in {"c1", NoCaller} : CreateBegin(QHoursA, c)
    \/ \E ok \in BOOLEAN : EscalateCreateDone(ok)

HandleNext ==
    \/ \E h \in Handlers, id \in RequestIds, c \in Callers : HandleBegin(h, id, c)
    \/ \E h \in Handlers, delivered \in BOOLEAN : HandleInjectDone(h, delivered)
    \/ \E h \in Handlers, ok \in BOOLEAN : HandleKbDone(h, ok)

WebhookNext ==
    \/ \E p \in Payloads : \E s \in SignaturesFor(p) : WebhookBegin(p, s)
    \/ \E ok \in BOOLEAN : WebhookKbDone(ok)
    \/ WebhookClose

ConvNext ==
    \/ \E k \in OneConv, c \in Callers : ConvRegister(k, c)
    \/ \E k \in OneConv : ConvEnd(k)

BackendNext ==
    \E id \in RequestIds \cup {OtherRequest.id}, learn \in BOOLEAN : BackendResolve(id, learn)

ClockNext == \E d \in TickSizes : Tick(d)

LoadNext ==
    \/ \E force_refresh \in BOOLEAN : KbLoadBegin(force_refresh)
    \/ \E answer \in Answers : KbLoadDone(answer)
    \/ \E force_refresh \in BOOLEAN : HrLoadBegin(force_refresh)
    \/ \E answer \in Answers : HrLoadDone(answer)

LoopNext ==
    \/ \E l \in LoopNames : LoopStart(l)
    \/ \E l \in LoopNames : LoopWake(l)
    \/ \E l \in LoopNames, outcome \in Outcomes : LoopLoadDone(l, outcome)
    \/ \E l \in LoopNames : LoopRetry(l)
    \/ \E l \in LoopNames : LoopCancel(l)
    \/ \E l \in LoopNames : LoopExit(l)

\* the whole subsystem
Next ==
    \/ EscalateNext
    \/ \E c \in CallerIds : CreateBegin(QHoursA, c)
    \/ HandleNext
    \/ WebhookNext
    \/ ConvNext
    \/ BackendNext
    \/ ClockNext
    \/ LoadNext
    \/ LoopNext

Spec == Init /\ [][Next]_vars

\* delivery: requests created by create_help_request, sessions coming and going,
\* handle_resolved_request calls on the live agent
DeliverInit ==
    /\ Constructed(MaxKb, NoSecret, {})
    /\ dup = IdleDup

DeliverNext == CreateNext \/ HandleNext \/ ConvNext

SpecDeliver == DeliverInit /\ [][DeliverNext]_vars

\* the webhook: requests created by create_help_request, sessions coming and
\* going, webhook requests arriving
WebhookInit ==
    /\ \E entries \in 0..MaxKb, secret \in {NoSecret, Secret} :
          Constructed(entries, secret, {})
    /\ dup = IdleDup

WebhookSpecNext == CreateNext \/ WebhookNext \/ ConvNext

SpecWebhook == WebhookInit /\ [][WebhookSpecNext]_vars

\* escalation: escalate_to_supervisor calls one after the other, the backend's
\* requests being resolved, time passing
EscInit ==
    /\ \E requests \in {{}, {OtherRequest}} : Constructed(0, NoSecret, requests)
    /\ dup = IdleDup

EscNext ==
    \/ \E q \in {QHoursA, QHoursB}, c \in {"c1", NoCaller} : EscalateBegin(q, c)
    \/ \E ok \in BOOLEAN : EscalateFetchDone(ok)
    \/ \E ok \in BOOLEAN : EscalateCreateDone(ok)
    \/ \E id \in RequestIds \cup {OtherRequest.id} : BackendResolve(id, FALSE)
    \/ Tick(30)

SpecEsc == EscInit /\ [][EscNext]_vars

\* check_duplicate_request on drawn inputs: a cache of up to MaxCache entries

DupEntries(i) == [id : {i}, question : DupQuestions, callerId : CallerIds]
DupCaches ==
    UNION {{c \in [1..n -> UNION {DupEntries(i) : i \in 1..n}] :
               \A i \in 1..n : c[i].id = i} : n \in 0..MaxCache}

DupInit ==
    /\ Constructed(0, NoSecret, {})
    /\ \E cache \in DupCaches, q \in DupQuestions, c \in CallerIds :
          dup = [IdleDup EXCEPT !.cache = cache, !.question = q, !.caller_id = c]

DupCheck ==
    /\ ~dup.checked
    /\ dup' = [dup EXCEPT !.checked = TRUE,
                          !.result = check_duplicate_request(dup.cache, dup.question,
                                                             dup.caller_id)]
    /\ UNCHANGED <<now, backend, kbEntries, webhook_secret, agentVars, active_sessions,
                   conv, esc, hnd, wh, attempts, prevEsc, quiet, kbFetched, hrFetched, callVars, server>>

DupNext == DupCheck

SpecDup == DupInit /\ [][DupNext]_vars

\* a conversation from its registration to its end, with the refresh tasks it owns
LifeInit ==
    /\ Constructed(MaxKb, NoSecret, {OtherRequest})
    /\ dup = IdleDup

LifeNext ==
    \/ \E k \in OneConv, c \in Callers : ConvStart(k, c)
    \/ \E k \in OneConv, ok \in BOOLEAN : ConvStarted(k, ok)
    \/ \E k \in OneConv, ok \in BOOLEAN : ConvGreeted(k, ok)
    \/ \E k \in OneConv : ConvCancelled(k)
    \/ \E k \in OneConv : ConvJoinKb(k)
    \/ \E k \in OneConv : ConvLeave(k)
    \/ \E l \in LoopNames : LoopWake(l)
    \/ \E l \in LoopNames, outcome \in Outcomes : LoopLoadDone(l, outcome)
    \/ \E l \in LoopNames : LoopRetry(l)
    \/ \E l \in LoopNames : LoopExit(l)
    \/ Advance(30, MaxLoopTime)

SpecLife == LifeInit /\ [][LifeNext]_vars

\* progress: the refresh tasks of a conversation, a create_help_request call and
\* webhook requests side by side. The event loop resumes a task whose sleep is
\* over and the clock runs (weak fairness); the webhook's thread has its own event
\* loop, and the backend answers the fetch of a webhook request. No answer is
\* assumed for the GETs of the refresh loops, each of which may hang for ever,
\* and the POST of the create call is never answered.
ResolvedPayload == [type |-> "help_request_resolved", requestId |-> 1, callerId |-> "c1"]

ProgressInit ==
    /\ Constructed(MaxKb, NoSecret, {OtherRequest})
    /\ dup = IdleDup

ProgressNext ==
    \/ \E k \in OneConv : ConvStart(k, "c1")
    \/ \E l \in LoopNames : LoopWake(l)
    \/ \E l \in LoopNames, outcome \in {"ok", "unexpected"} : LoopLoadDone(l, outcome)
    \/ \E l \in LoopNames : LoopRetry(l)
    \/ CreateBegin(QHoursA, NoCaller)
    \/ WebhookBegin(ResolvedPayload, NoSignature)
    \/ \E ok \in BOOLEAN : WebhookKbDone(ok)
    \/ WebhookClose
    \/ Advance(15, MaxProgressTime)

SpecProgress ==
    /\ ProgressInit
    /\ [][ProgressNext]_vars
    /\ WF_vars(Advance(15, MaxProgressTime))
    /\ \A l \in LoopNames : WF_vars(LoopWake(l)) /\ WF_vars(LoopRetry(l))
    /\ WF_vars(\E ok \in BOOLEAN : WebhookKbDone(ok))

\* the pending-escalation cache among its readers and the other flows: the tool
\* (lookup, duplicate check, create), forced refreshes, deliveries to a
\* registered session, the backend's requests being resolved
PendingInit ==
    /\ Constructed(0, NoSecret, {OtherRequest})
    /\ dup = IdleDup

PendingNext ==
    \/ EscalateBegin(QHoursA, "c1")
    \/ \E ok \in BOOLEAN : EscalateFetchDone(ok)
    \/ \E ok \in BOOLEAN : EscalateCreateDone(ok)
    \/ HrLoadBegin(TRUE)
    \/ \E answer \in {"ok", "status"} : HrLoadDone(answer)
    \/ ConvRegister(1, "c1")
    \/ HandleBegin(1, 1, "c1")
    \/ HandleInjectDone(1, TRUE)
    \/ HandleKbDone(1, TRUE)
    \/ BackendResolve(OtherRequest.id, FALSE)

SpecPending == PendingInit /\ [][PendingNext]_vars

\* overlapping fetches: the refresh tasks running while deliveries refresh the
\* knowledge and load calls refresh the pending escalations, time passing
OverlapInit ==
    /\ Constructed(MaxKb, NoSecret, {OtherRequest})
    /\ dup = IdleDup

OverlapNext ==
    \/ ConvStart(1, "c1")
    \/ \E l \in LoopNames : LoopWake(l)
    \/ \E l \in LoopNames, answer \in {"ok", "status"} : LoopLoadDone(l, answer)
    \/ HandleBegin(1, 1, "c1")
    \/ \E ok \in BOOLEAN : HandleKbDone(1, ok)
    \/ HrLoadBegin(TRUE)
    \/ \E answer \in {"ok", "status"} : HrLoadDone(answer)
    \/ Advance(15, MaxTime)

SpecOverlap == OverlapInit /\ [][OverlapNext]_vars

\* the session registry shared by the conversations of one process: runs of
\* entrypoint registering and ending under the callers' ids, requests created
\* and resolutions delivered meanwhile
RegistryInit ==
    /\ Constructed(0, NoSecret, {})
    /\ dup = IdleDup

RegistryNext ==
    \/ \E k \in Convs, c \in Callers : ConvRegister(k, c)
    \/ \E k \in Convs : ConvEnd(k)
    \/ CreateBegin(QHoursA, "c1")
    \/ \E ok \in BOOLEAN : EscalateCreateDone(ok)
    \/ HandleBegin(1, 1, "c1")
    \/ \E delivered \in BOOLEAN : HandleInjectDone(1, delivered)
    \/ HandleKbDone(1, TRUE)

SpecRegistry == RegistryInit /\ [][RegistryNext]_vars

\* the refresh loops with a backend that answers every call: the clock runs, the
\* event loop resumes a task whose sleep is over, and every GET of a loop's load
\* ends, well or not (weak fairness); a task may be cancelled at any time
RefreshInit ==
    /\ Constructed(0, NoSecret, {})
    /\ dup = IdleDup

RefreshNext ==
    \/ \E l \in LoopNames : LoopStart(l)
    \/ \E l \in LoopNames : LoopWake(l)
    \/ \E l \in LoopNames, outcome \in {"ok", "unexpected"} : LoopLoadDone(l, outcome)
    \/ \E l \in LoopNames : LoopRetry(l)
    \/ \E l \in LoopNames : LoopCancel(l)
    \/ \E l \in LoopNames : LoopExit(l)
    \/ Advance(30, MaxLoopTime)

SpecRefresh ==
    /\ RefreshInit
    /\ [][RefreshNext]_vars
    /\ WF_vars(Advance(30, MaxLoopTime))
    /\ \A l \in LoopNames :
          /\ WF_vars(LoopWake(l))
          /\ WF_vars(LoopRetry(l))
          /\ WF_vars(\E outcome \in {"ok", "unexpected"} : LoopLoadDone(l, outcome))

\* entrypoint: the webhook server is started (line 572) before the conversation
\* and its refresh tasks (lines 664-668); whatever the program can do is done
\* sooner or later (weak fairness of the whole step)
ServerInit ==
    /\ Constructed(MaxKb, NoSecret, {})
    /\ dup = IdleDup

ServerNext ==
    \/ ServerStart
    \/ server = "running" /\ WebhookBegin(ResolvedPayload, NoSignature)
    \/ \E ok \in BOOLEAN : WebhookKbDone(ok)
    \/ WebhookClose
    \/ \E k \in OneConv : server = "running" /\ ConvStart(k, "c1")
    \/ \E k \in OneConv, ok \in BOOLEAN : ConvStarted(k, ok)
    \/ \E k \in OneConv, ok \in BOOLEAN : ConvGreeted(k, ok)
    \/ \E k \in OneConv : ConvCancelled(k)
    \/ \E k \in OneConv : ConvJoinKb(k)
    \/ \E k \in OneConv : ConvLeave(k)
    \/ \E l \in LoopNames : LoopWake(l)
    \/ \E l \in LoopNames : LoopLoadDone(l, "ok")
    \/ \E l \in LoopNames : LoopExit(l)
    \/ Advance(30, MaxTime)

SpecServer == ServerInit /\ [][ServerNext]_vars /\ WF_vars(ServerNext)

\* the tool and create_help_request on every question, caller and answer of the
\* backend, the backend holding a request with an empty question or none
EmptyRequest == [id |-> 0, question |-> QEmpty, callerId |-> NoCaller, status |-> "PENDING"]

ToolInit ==
    /\ \E requests \in {{}, {EmptyRequest}} : Constructed(0, NoSecret, requests)
    /\ dup = IdleDup

ToolNext ==
    \/ \E q \in {QEmpty, QHoursA}, c \in CallerIds : EscalateBegin(q, c)
    \/ \E ok \in BOOLEAN : EscalateFetchDone(ok)
    \/ \E q \in {QEmpty, QHoursA}, c \in CallerIds : CreateBegin(q, c)
    \/ \E answer \in CreateAnswers : CreateDone(answer)

SpecTool == ToolInit /\ [][ToolNext]_vars

\* the caches: load calls one after the other on each cache, the backend's
\* knowledge and pending requests changing, time passing
CacheInit ==
    /\ \E entries \in 0..MaxKb : Constructed(entries, NoSecret, {OtherRequest})
    /\ dup = IdleDup

CacheNext ==
    \/ LoadNext
    \/ \E learn \in BOOLEAN : BackendResolve(OtherRequest.id, learn)
    \/ Advance(30, MaxCacheTime)

SpecCache == CacheInit /\ [][CacheNext]_vars

\* the refresh loops: started, waking, loading, retrying, cancelled
LoopInit ==
    /\ \E entries \in 0..MaxKb : Constructed(entries, NoSecret, {OtherRequest})
    /\ dup = IdleDup

LoopSpecNext ==
    \/ LoopNext
    \/ \E learn \in BOOLEAN : BackendResolve(OtherRequest.id, learn)
    \/ \E d \in TickSizes : Advance(d, MaxLoopTime)

SpecLoops == LoopInit /\ [][LoopSpecNext]_vars

\* ------------------------------------------------------------------ claims

\* the caller id the backend holds for a created request
CreatedCaller(request_id) ==
    (CHOOSE r \in backend \cup {[NoRequest EXCEPT !.id = request_id]} :
         r.id = request_id).callerId

Returned(h) == hnd[h].pc \in {"done", "raised"}

\* C1: a handle_resolved_request call for a request created by
\* create_help_request, made while a session is registered under the request's
\* caller id and carrying that caller id, has made exactly one generate_reply
\* call when it returns, and pending_requests no longer holds the request.
C1_DeliversOnceAndForgets ==
    \A h \in Handlers :
        (Returned(h) /\ hnd[h].case = "own_session")
            => (hnd[h].injects = 1 /\ ~Has(pending_requests, hnd[h].id))

C1_Witness ==
    \E h \in Handlers :
        /\ hnd[h].pc = "done"
        /\ hnd[h].case = "own_session"
        /\ hnd[h].reply = "spoken"
        /\ attempts[hnd[h].id] = 1
        /\ \E r \in backend : r.id = hnd[h].id

\* C2 (as claimed): a verified help_request_resolved webhook for an id the live
\* agent tracks removes the id from the live agent's pending_requests and, when
\* the caller's session is registered, makes a generate_reply call for the id.
C2_WebhookDeliversOnLiveAgent ==
    (/\ wh.pc = "done"
     /\ wh.status = 200
     /\ webhook_secret = Secret
     /\ wh.liveKnown)
        => (/\ ~Has(pending_requests, wh.id)
            /\ wh.liveSession => attempts[wh.id] >= 1)

\* the two questions share at least MinCommonWords words
ShareWords(q1, q2) == Cardinality(WordSet(q1) \cap WordSet(q2)) >= 2

\* C3 (as claimed): an escalate_to_supervisor call that directly follows one
\* that returned Created(id1), from the same caller, with a question sharing at
\* least 2 words, while id1 is pending at the backend, returns Duplicate of id1.
C3_SecondEscalationIsDuplicate ==
    (/\ esc.pc = "done"
     /\ prevEsc.kind = "Created"
     /\ prevEsc.caller = esc.caller
     /\ esc.caller # NoCaller
     /\ ShareWords(prevEsc.question, esc.question)
     /\ \E r \in backend : r.id = prevEsc.id /\ r.status = "PENDING")
        => esc.outcome = [kind |-> "Duplicate", id |-> prevEsc.id]

C9_AtMostOneAttempt == \A id \in RequestIds : attempts[id] <= 1

\* C10: when a handle_resolved_request call made for a tracked request returns,
\* pending_requests no longer holds the request: after a generate_reply that
\* returned, after one that raised, and when no session was registered; the
\* call made at most one generate_reply call, and none without a session.
C10_EntryRemovedInEveryCase ==
    \A h \in Handlers :
        (Returned(h) /\ hnd[h].case # "unknown")
            => (/\ ~Has(pending_requests, hnd[h].id)
                /\ hnd[h].injects <= 1
                /\ hnd[h].reply = "failed" => hnd[h].injects = 1
                /\ hnd[h].case = "no_session" => hnd[h].injects = 0)

C10_Witness ==
    /\ \E h \in Handlers :
          hnd[h].pc = "done" /\ hnd[h].case # "unknown" /\ hnd[h].reply = "failed"
    /\ \E h \in Handlers : hnd[h].pc = "done" /\ hnd[h].case = "no_session"

\* the rules of duplicate detection, on one cached entry
Common(entry, question) == WordSet(question) \cap WordSet(entry.question)
United(entry, question) == WordSet(question) \cup WordSet(entry.question)

SameCallerRule(entry, question, caller_id) ==
    /\ entry.callerId = caller_id
    /\ entry.callerId # NoCaller
    /\ caller_id # NoCaller
    /\ Cardinality(Common(entry, question)) >= 2

\* Jaccard similarity strictly above 7/10
CrossCallerRule(entry, question) ==
    /\ United(entry, question) # {}
    /\ 10 * Cardinality(Common(entry, question)) > 7 * Cardinality(United(entry, question))

\* Jaccard similarity exactly 7/10
AtSevenTenths(entry, question) ==
    /\ United(entry, question) # {}
    /\ 10 * Cardinality(Common(entry, question)) = 7 * Cardinality(United(entry, question))

Entries == {dup.cache[i] : i \in 1..Len(dup.cache)}

\* C5: if some cached entry has the new caller id (non-empty) and shares at
\* least 2 words with the new question, the check declares a duplicate.
C5_SameCallerRuleDeclares ==
    (dup.checked /\ \E e \in Entries : SameCallerRule(e, dup.question, dup.caller_id))
        => dup.result.is_duplicate

C5_Witness ==
    /\ dup.checked
    /\ dup.result.is_duplicate
    /\ \E e \in Entries : SameCallerRule(e, dup.question, dup.caller_id)
    /\ \A e \in Entries : ~CrossCallerRule(e, dup.question)

\* C6: if some cached entry has Jaccard similarity strictly above 0.7 with the
\* new question, the check declares a duplicate, whatever the caller ids.
C6_CrossCallerRuleDeclares ==
    (dup.checked /\ \E e \in Entries : CrossCallerRule(e, dup.question))
        => dup.result.is_duplicate

C6_Witness ==
    /\ dup.checked
    /\ dup.result.is_duplicate
    /\ \E e \in Entries : CrossCallerRule(e, dup.question)
    /\ \A e \in Entries : e.callerId # dup.caller_id

\* one cached entry, of another caller, with a similarity that is defined
TwoCallers ==
    /\ dup.checked
    /\ Len(dup.cache) = 1
    /\ dup.cache[1].callerId # dup.caller_id
    /\ United(dup.cache[1], dup.question) # {}

\* C7 (as claimed): from different callers, a similarity at or above 0.7 is a
\* duplicate and one below 0.7 is not.
C7_AtOrAboveIsDuplicate ==
    TwoCallers =>
        (dup.result.is_duplicate <=>
            (CrossCallerRule(dup.cache[1], dup.question)
                \/ AtSevenTenths(dup.cache[1], dup.question)))

\* C7 (amended): from different callers, a similarity strictly above 0.7 is a
\* duplicate; one of exactly 0.7, or below, is not.
C7_StrictlyAboveIsDuplicate ==
    TwoCallers =>
        (dup.result.is_duplicate <=> CrossCallerRule(dup.cache[1], dup.question))

C7_Witness ==
    /\ TwoCallers
    /\ AtSevenTenths(dup.cache[1], dup.question)
    /\ ~dup.result.is_duplicate
    /\ ~dup.result.raised

Matches(e) ==
    SameCallerRule(e, dup.question, dup.caller_id) \/ CrossCallerRule(e, dup.question)

\* C8 (as claimed): the check declares a duplicate exactly when some cached
\* entry satisfies the same-caller rule or the cross-caller rule, and then
\* returns the first such entry in cache order.
C8_DuplicateIffSomeEntryMatches ==
    dup.checked =>
        /\ dup.result.is_duplicate <=> \E e \in Entries : Matches(e)
        /\ dup.result.is_duplicate =>
              \E i \in 1..Len(dup.cache) :
                  /\ dup.result.existing_request = dup.cache[i]
                  /\ Matches(dup.cache[i])
                  /\ \A j \in 1..(i - 1) : ~Matches(dup.cache[j])

\* a forced load whose GET fails in this step
FailsForced(call, returned) ==
    /\ call.pc = "fetch"
    /\ call.force
    /\ returned.answer \in {"status", "exception"}

\* C12 (as claimed): when the GET of a forced load fails, the cache's content
\* and fetch timestamp are left unchanged and the call returns, with the stored
\* value as its result; on both caches.
C12_FailedRefreshReturnsStored ==
    [][/\ FailsForced(kbCall, kbCall') =>
              /\ UNCHANGED kbVars
              /\ kbCall'.pc = "done"
              /\ kbCall'.ret = knowledge_base_content
       /\ FailsForced(hrCall, hrCall') =>
              /\ UNCHANGED hrVars
              /\ hrCall'.pc = "done"
              /\ hrCall'.ret = pending_help_requests]_vars

\* C12 (amended): when the GET of a forced load fails, the cache's content and
\* fetch timestamp are left unchanged and the call returns; its result is the
\* stored value, except that load_knowledge_base with no content stored returns
\* one of the texts "KNOWLEDGE BASE: Unavailable" / "KNOWLEDGE BASE: Error loading".
C12_FailedRefreshReturnsStoredOrSentinel ==
    [][/\ FailsForced(kbCall, kbCall') =>
              /\ UNCHANGED kbVars
              /\ kbCall'.pc = "done"
              /\ knowledge_base_content # KbNone => kbCall'.ret = knowledge_base_content
              /\ knowledge_base_content = KbNone =>
                     kbCall'.ret \in {KbUnavailable, KbErrorLoading}
       /\ FailsForced(hrCall, hrCall') =>
              /\ UNCHANGED hrVars
              /\ hrCall'.pc = "done"
              /\ hrCall'.ret = pending_help_requests]_vars

C12_Witness ==
    /\ kbCall.pc = "done" /\ kbCall.force /\ kbCall.answer = "exception"
    /\ kbCall.ret = knowledge_base_content
    /\ knowledge_base_content \notin {KbNone, KbFormat(kbEntries)}
    /\ hrCall.pc = "done" /\ hrCall.force /\ hrCall.answer = "status"
    /\ hrCall.ret = pending_help_requests
    /\ pending_help_requests # << >>
    /\ pending_help_requests \notin PendingItems

\* two load_knowledge_base(False) calls, one directly after the other
TwoPlainCalls ==
    /\ kbCall.pc = "done" /\ ~kbCall.force
    /\ kbLast.pc = "done" /\ ~kbLast.force

\* C13 (as claimed): two load_knowledge_base(False) calls no more than 60 s
\* apart, with no forced refresh between them, return identical content
\* whatever the backend does during the two calls.
C13_TwoCallsIdentical ==
    (TwoPlainCalls /\ kbCall.t0 - kbLast.t0 <= 60) => kbCall.ret = kbLast.ret

\* C13 (amended): two load_knowledge_base(False) calls with no forced refresh
\* between them return identical content when the first returned fetched or
\* cached content and the second is made no more than 60 s after the stored
\* fetch timestamp.
C13_TwoCallsIdenticalOnceLoaded ==
    (/\ TwoPlainCalls
     /\ kbLast.answer \in {"ok", "cached"}
     /\ kbCall.t0 - kbCall.stamp <= 60)
        => kbCall.ret = kbLast.ret

C13_Witness ==
    /\ TwoPlainCalls
    /\ kbLast.answer = "ok"
    /\ kbCall.t0 - kbCall.stamp <= 60
    /\ kbCall.t0 > kbLast.t0
    /\ kbCall.ret = kbLast.ret
    /\ kbCall.ret # KbFormat(kbEntries)

\* C14 (as claimed): on both caches, a non-forced load made after a fetch
\* succeeded, no more than the cache's interval after the stored fetch
\* timestamp, makes no backend call and returns the stored value.
C14_FreshCacheAnswersWithoutFetch ==
    /\ (/\ kbCall.pc # "idle" /\ ~kbCall.force /\ kbCall.had
        /\ kbCall.t0 - kbCall.stamp <= 60)
           => (kbCall.answer = "cached" /\ kbCall.ret = knowledge_base_content)
    /\ (/\ hrCall.pc # "idle" /\ ~hrCall.force /\ hrCall.had
        /\ hrCall.t0 - hrCall.stamp <= 45)
           => (hrCall.answer = "cached" /\ hrCall.ret = pending_help_requests)

\* C15: once a knowledge fetch has succeeded, knowledge_base_content is never
\* empty again, whatever the backend returned and whatever refreshes follow.
C15_ContentNeverEmptyOnceFetched == kbFetched => knowledge_base_content # KbNone

C15_Witness ==
    /\ kbFetched
    /\ knowledge_base_content = KbFallback
    /\ kbCall.pc = "done" /\ kbCall.force /\ kbCall.answer \in {"status", "exception"}
    /\ kbLast.pc = "done" /\ kbLast.answer = "ok"

\* C20: a refresh loop that was started is asleep, loading or in its retry
\* sleep, whatever failures its loads met, unless it was cancelled; it has
\* stopped only if it was cancelled.
C20_LoopsStopOnlyWhenCancelled ==
    \A l \in LoopNames :
        /\ loops[l].pc = "stopped" => loops[l].cancelled
        /\ (loops[l].pc # "off" /\ ~loops[l].cancelled)
               => loops[l].pc \in {"sleep", "load", "backoff"}

C20_Witness ==
    /\ loops["kb"].pc = "sleep" /\ loops["kb"].failed /\ ~loops["kb"].cancelled
    /\ loops["hr"].pc = "backoff" /\ ~loops["hr"].cancelled

\* C11: a handle_resolved_request call for a request id that pending_requests
\* does not hold (never created, or removed by an earlier call) raises nothing,
\* makes no generate_reply call, and leaves pending_requests and
\* active_sessions as they are, at each of its steps.
C11_UnknownRequestIsNoOp ==
    [][\A h \in Handlers :
           (hnd'[h] # hnd[h] /\ hnd'[h].case = "unknown")
               => (/\ hnd'[h].pc \in {"kbfetch", "done"}
                   /\ hnd'[h].injects = 0
                   /\ attempts' = attempts
                   /\ UNCHANGED <<pending_requests, active_sessions>>)]_vars

C11_Witness ==
    \E h, g \in Handlers :
        /\ hnd[h].pc = "done" /\ hnd[h].case = "unknown"
        /\ hnd[g].pc = "done" /\ hnd[g].case = "own_session" /\ hnd[g].reply = "spoken"
        /\ hnd[g].id = hnd[h].id
        /\ attempts[hnd[h].id] = 1
        /\ Has(active_sessions, "c1")

\* the body a webhook request carried
Body(w) == [type |-> w.type, requestId |-> w.id, callerId |-> w.caller]

\* the header value, one leading "sha256=" removed when present, is the hex
\* HMAC-SHA256 of the body under the configured secret
SignatureMatches(w) ==
    /\ w.signature.ascii
    /\ w.signature.prefixes <= 1
    /\ w.signature.hex = HmacHex(webhook_secret, Body(w))

\* the request passes the signature check: no secret, or a matching signature
Genuine(w) == webhook_secret = NoSecret \/ SignatureMatches(w)

\* the step is the arrival of a webhook request
Arrives == wh.pc = "idle" /\ wh'.pc # "idle"

\* C16 (as claimed): with a secret configured, a webhook request whose
\* signature does not match is answered 401, its body is not parsed, and the
\* agent's caches, pending_requests and active_sessions are left unchanged.
C16_MismatchIsRejectedUntouched ==
    [][(Arrives /\ webhook_secret = Secret /\ ~SignatureMatches(wh'))
           => (/\ wh'.pc = "done"
               /\ wh'.status = 401
               /\ ~wh'.parsed
               /\ UNCHANGED <<agentVars, active_sessions>>)]_vars

\* C17: with a secret configured, verify_webhook_signature returns true exactly
\* when the signature, one leading "sha256=" removed when present, is the hex
\* HMAC of the payload under the secret; an empty signature is not accepted.
C17_VerifyAcceptsExactlyTheHmac ==
    (wh.pc # "idle" /\ webhook_secret = Secret)
        => (/\ wh.verdict = "True" <=> SignatureMatches(wh)
            /\ wh.signature = NoSignature => wh.verdict = "False")

C17_Witness ==
    /\ webhook_secret = Secret
    /\ wh.pc = "done"
    /\ wh.verdict = "True"
    /\ wh.signature = Signed(1, Secret, Body(wh))
    /\ wh.status = 200

\* C18: a webhook request of type help_request_resolved that passes the
\* signature check is answered 200 with the requestId it carried, whether or
\* not the live agent tracked the id or had the caller's session, and whether
\* or not the knowledge refresh failed.
C18_ResolvedIsAnswered200 ==
    (wh.pc = "done" /\ Genuine(wh) /\ wh.type = "help_request_resolved")
        => (wh.status = 200 /\ wh.echo = wh.id)

C18_Witness ==
    /\ wh.pc = "done" /\ wh.type = "help_request_resolved"
    /\ webhook_secret = Secret
    /\ wh.status = 200 /\ wh.echo = wh.id
    /\ wh.refresh = "failed"
    /\ ~wh.liveKnown /\ ~wh.liveSession

\* C19: a webhook request that passes the signature check and whose type is
\* not help_request_resolved (absent included) is answered 400 at once, with
\* no backend call, and leaves the agent's caches, pending_requests and
\* active_sessions unchanged.
C19_OtherTypeIs400Untouched ==
    [][(Arrives /\ Genuine(wh') /\ wh'.type # "help_request_resolved")
           => (/\ wh'.pc = "done"
               /\ wh'.status = 400
               /\ UNCHANGED <<agentVars, active_sessions, backend, kbEntries>>)]_vars

C19_Witness ==
    /\ wh.pc = "done" /\ wh.status = 400
    /\ wh.type = NoType
    /\ webhook_secret = Secret
    /\ wh.liveKnown /\ wh.liveSession

\* C24: a handle_resolved_request call returns only out of the forced
\* load_knowledge_base it suspended in after its delivery step, whether the
\* request id was tracked or not.
C24_ReturnsOnlyAfterRefresh ==
    [][\A h \in Handlers :
           (hnd'[h].pc = "done" /\ hnd[h].pc # "done") => hnd[h].pc = "kbfetch"]_vars

C24_Witness ==
    \E h, g \in Handlers :
        /\ hnd[h].pc = "done" /\ hnd[h].case = "unknown"
        /\ hnd[g].pc = "done" /\ hnd[g].case = "own_session" /\ hnd[g].reply = "failed"
        /\ knowledge_base_content = KbFormat(kbEntries)

\* C27 (as claimed): a question with no caller id, checked against one cached
\* entry with no caller id that shares at least 2 words with it and has a
\* Jaccard similarity of at most 0.7, is not declared a duplicate.
C27_NoCallerIsNotSameCaller ==
    (/\ dup.checked
     /\ Len(dup.cache) = 1
     /\ dup.caller_id = NoCaller
     /\ dup.cache[1].callerId = NoCaller
     /\ Cardinality(Common(dup.cache[1], dup.question)) >= 2
     /\ ~CrossCallerRule(dup.cache[1], dup.question))
        => ~dup.result.is_duplicate

\* C28 (as claimed): no handle_resolved_request call raises, however the calls
\* for one request id interleave on the agent.
C28_NoCallRaises == \A h \in Handlers : hnd[h].pc # "raised"

\* C29: a load_knowledge_base or load_pending_help_requests call makes at most
\* one backend request, and a call with force_refresh=True makes exactly one,
\* whatever the cache holds and however old it is.
C29_OneRequestPerCall ==
    \A call \in {kbCall, hrCall} :
        /\ call.gets <= 1
        /\ (call.pc # "idle" /\ call.force) => call.gets = 1

C29_Witness ==
    /\ kbCall.pc = "done" /\ kbCall.force /\ kbCall.gets = 1
    /\ kbCall.had /\ kbCall.t0 - kbCall.stamp <= knowledge_refresh_interval
    /\ hrCall.pc = "done" /\ hrCall.force /\ hrCall.gets = 1
    /\ hrCall.had /\ hrCall.t0 - hrCall.stamp <= help_requests_refresh_interval
    /\ hrCall.ret # << >>
    /\ kbLast.pc = "done" /\ ~kbLast.force /\ kbLast.gets = 0

\* C23: create_help_request adds the entry keyed by the returned id exactly when
\* the backend answered 201 with an id and caller_id is not empty; when the
\* backend call fails it returns None and pending_requests is unchanged.
C23_RegistersIffCreatedForCaller ==
    [][(esc.pc = "create" /\ esc'.pc = "done") =>
          LET registers == esc'.answer = "created" /\ esc.caller # NoCaller
          IN  /\ registers =>
                     /\ esc'.outcome.id # NoId
                     /\ ~Has(pending_requests, esc'.outcome.id)
                     /\ pending_requests' =
                            Put(pending_requests, esc'.outcome.id,
                                [caller_id |-> esc.caller, question |-> esc.question])
              /\ ~registers => pending_requests' = pending_requests
              /\ esc'.answer = "failed" =>
                     /\ esc'.outcome = [kind |-> "Failed", id |-> 0]
                     /\ pending_requests' = pending_requests]_vars

C23_Witness ==
    /\ esc.pc = "done" /\ esc.answer = "created" /\ esc.caller = "c1"
    /\ Has(pending_requests, 2) /\ ~Has(pending_requests, 1)
    /\ esc.outcome.id = 2

\* C26: escalate_to_supervisor ends in one of its messages (created, duplicate,
\* trouble) and never in an exception, whatever the question, the cache and the
\* backend's answers.
C26_ToolAlwaysAnswers ==
    /\ esc.pc \in {"idle", "fetch", "create", "done"}
    /\ esc.pc = "done" => esc.outcome.kind \in {"Created", "Duplicate", "Failed"}

C26_Witness ==
    /\ esc.pc = "done" /\ esc.question = QEmpty /\ esc.answer = "none"
    /\ esc.outcome.kind = "Failed"
    /\ pending_help_requests # << >>
    /\ check_duplicate_request(pending_help_requests, esc.question, esc.caller).raised

\* C21 (as claimed): a refresh loop leaves its forced load only by the load
\* completing (into the next sleep or the retry sleep), also when it was
\* cancelled during the load; it ends only out of a sleep.
C21_CancelledLoadCompletes ==
    [][\A l \in LoopNames :
           (loops[l].pc = "load" /\ loops'[l].pc # "load")
               => loops'[l].pc \in {"sleep", "backoff"}]_vars

\* C22: in the shutdown of a conversation the active_sessions entry is removed
\* only when both refresh tasks have ended, and once entrypoint has returned from
\* its cleanup neither task is running.
C22_UnregistersAfterBothTasksEnded ==
    /\ [](\A k \in Convs :
             conv[k].pc = "ended" => \A l \in LoopNames : loops[l].pc = "stopped")
    /\ [][\A c \in Callers :
              (Has(active_sessions, c) /\ ~Has(active_sessions', c))
                  => \A l \in LoopNames : loops[l].pc = "stopped" /\ loops[l].cancelled]_vars

C22_Witness ==
    \E k \in Convs :
        /\ conv[k].pc = "ended"
        /\ ~Has(active_sessions, conv[k].caller)
        /\ \A l \in LoopNames : loops[l].pc = "stopped"
        /\ loops["kb"].failed
        /\ now > 0

\* C25 (as claimed): once a conversation has ended, by cancellation of
\* entrypoint or by a failure of session.start or of the greeting,
\* active_sessions has no entry under its caller id.
C25_EndedConversationIsUnregistered ==
    \A k \in Convs :
        conv[k].pc \in {"ended", "failed"} => ~Has(active_sessions, conv[k].caller)

\* C30: whichever backend calls of the refresh loops and of create_help_request
\* never answer, a refresh loop whose sleep ends within the horizon begins its
\* next refresh (so does a loop in its retry sleep begin its next cycle), and a
\* webhook request waiting for its knowledge fetch is answered.
C30_IndependentProgress ==
    /\ \A l \in LoopNames :
          /\ (loops[l].pc = "sleep" /\ loops[l].wake <= MaxProgressTime)
                 ~> (loops[l].pc = "load")
          /\ (loops[l].pc = "backoff" /\ loops[l].wake <= MaxProgressTime)
                 ~> (loops[l].pc = "sleep")
    /\ (wh.pc = "kbfetch") ~> (wh.pc = "done" /\ wh.status = 200)

\* the knowledge fetch hangs since the loop's first wake-up and a create call
\* hangs, while the escalation loop has completed a fetch of its second period
\* and a webhook request has been answered
C30_Witness ==
    /\ loops["kb"].pc = "load" /\ loops["kb"].t0 = knowledge_refresh_interval
    /\ now = MaxProgressTime
    /\ esc.pc = "create"
    /\ last_help_requests_update >= 2 * help_requests_refresh_interval
    /\ loops["hr"].pc = "sleep"
    /\ wh.pc = "done" /\ wh.status = 200

\* C33: with no webhook secret configured verify_webhook_signature returns True
\* for every payload and every header value, absent and non-ASCII ones included,
\* and every such request is parsed and dispatched (answered 200 or 400, never
\* 401 or 500).
C33_NoSecretAcceptsEverything ==
    /\ \A p \in Payloads : \A g \in SignaturesFor(p) :
          verify_webhook_signature(NoSecret, p, g) = "True"
    /\ (webhook_secret = NoSecret /\ wh.pc # "idle") =>
          /\ wh.verdict = "True"
          /\ wh.parsed
          /\ wh.pc = "done" => wh.status \in {200, 400}

C33_Witness ==
    /\ webhook_secret = NoSecret
    /\ wh.pc = "done" /\ wh.signature = NonAscii /\ wh.status = 200

\* C36 (as claimed): check_duplicate_request returns a result and raises
\* nothing, whatever the question and the cache.
C36_CheckNeverRaises == dup.checked => ~dup.result.raised

\* the failed fetch of a knowledge cache that was never populated
FailedOnEmpty ==
    /\ kbCall.pc = "done"
    /\ kbCall.answer \in {"status", "exception"}
    /\ ~kbCall.had

\* C38: after a failed fetch on a knowledge cache that no fetch has filled, the
\* call has returned one of the two sentinel texts, knowledge_base_content is
\* empty and the timestamp is unset, and the next call, forced or not, fetches.
C38_SentinelIsNotStored ==
    /\ [](FailedOnEmpty =>
             /\ kbCall.ret \in {KbUnavailable, KbErrorLoading}
             /\ knowledge_base_content = KbNone
             /\ last_knowledge_update = 0)
    /\ [][(FailedOnEmpty /\ kbCall' # kbCall) =>
             (kbCall'.pc = "fetch" /\ kbCall'.gets = 1)]_vars

C38_Witness ==
    /\ kbCall.pc = "fetch" /\ ~kbCall.force /\ now > 0
    /\ kbLast.pc = "done" /\ kbLast.answer = "status" /\ kbLast.ret = KbUnavailable
    /\ knowledge_base_content = KbNone

\* C32: an escalate_to_supervisor call that ends with the duplicate message has
\* made no create call and changes neither the backend nor pending_requests;
\* a call reaches its create call only from its own cache lookup, with a
\* duplicate check on the cache as that lookup left it that found no duplicate.
C32_CreateOnlyWhenNoDuplicate ==
    /\ [][(esc' # esc /\ esc'.pc = "done" /\ esc'.outcome.kind = "Duplicate") =>
             /\ esc.pc # "create"
             /\ esc'.answer = "none"
             /\ backend' = backend
             /\ pending_requests' = pending_requests]_vars
    /\ [][(esc'.pc = "create" /\ esc' # esc) =>
             LET d == check_duplicate_request(pending_help_requests', esc'.question,
                                              esc'.caller)
             IN  /\ esc.pc \in {"idle", "done", "fetch"}
                 /\ ~d.raised
                 /\ ~d.is_duplicate]_vars

C32_Witness ==
    /\ esc.pc = "done" /\ esc.outcome.kind = "Duplicate" /\ esc.outcome.id = 1
    /\ esc.answer = "none"
    /\ Created = 1
    /\ DOMAIN pending_requests = {1}

\* C31: the pending-escalation cache is empty until a fetch has succeeded, and
\* it changes only in the step in which a fetch of it succeeds, to the list that
\* fetch returned; creations, duplicate checks and deliveries leave it alone.
C31_CacheOnlyReplacedByFetch ==
    /\ [](~hrFetched => pending_help_requests = << >>)
    /\ [][pending_help_requests' # pending_help_requests =>
             /\ pending_help_requests' \in PendingItems
             /\ hrFetched'
             /\ \/ esc.pc = "fetch" /\ esc'.pc # "fetch"
                \/ hrCall.pc = "fetch" /\ hrCall'.pc = "done" /\ hrCall'.answer = "ok"]_vars

\* the cache is stale: a request was created and delivered since the fetch
C31_Witness ==
    /\ Len(pending_help_requests) = 1
    /\ pending_help_requests[1].id = OtherRequest.id
    /\ esc.pc = "done" /\ esc.outcome.kind = "Created"
    /\ hnd[1].pc = "done" /\ hnd[1].case = "own_session" /\ hnd[1].id = esc.outcome.id
    /\ \A b \in backend : b.id = OtherRequest.id => b.status = "RESOLVED"

\* C34 (as claimed): the fetch timestamp stored with each cache never
\* decreases, however the fetches on that cache overlap.
C34_TimestampsNeverDecrease ==
    [][/\ last_knowledge_update' >= last_knowledge_update
       /\ last_help_requests_update' >= last_help_requests_update]_vars

\* C35 (as claimed): when a conversation ends, the handle that another
\* conversation has registered in active_sessions is still registered, under the
\* same caller id included.
C35_EndRemovesOnlyOwnHandle ==
    [][\A k \in Convs :
           (conv[k].pc = "live" /\ conv'[k].pc # "live") =>
               \A c \in Callers :
                   (Has(active_sessions, c) /\ active_sessions[c] # k) =>
                       (Has(active_sessions', c) /\ active_sessions'[c] = active_sessions[c])]_vars

\* C37: with every backend call returning, a refresh loop that is not cancelled
\* keeps cycling within the horizon: a sleep that ends leads to a forced load, a
\* load leads to the next sleep or, after an unexpected failure, to the retry
\* sleep of 30 s, and the retry sleep leads, not before its 30 s are over, to the
\* interval's sleep of the next cycle.
C37_LoopKeepsRefreshing ==
    /\ \A l \in LoopNames :
          /\ (loops[l].pc = "sleep" /\ loops[l].wake <= MaxLoopTime)
                 ~> (loops[l].pc = "load" \/ loops[l].cancelled)
          /\ (loops[l].pc = "load")
                 ~> (loops[l].pc \in {"sleep", "backoff"} \/ loops[l].cancelled)
          /\ (loops[l].pc = "backoff" /\ loops[l].wake <= MaxLoopTime)
                 ~> (loops[l].pc = "sleep" \/ loops[l].cancelled)
    /\ [][\A l \in LoopNames :
             /\ (loops[l].pc = "load" /\ loops'[l].pc = "backoff")
                    => loops'[l].wake = now + retry_delay
             /\ (loops[l].pc = "backoff" /\ loops'[l].pc \notin {"backoff", "stopped"})
                    => /\ now >= loops[l].wake
                       /\ loops'[l].pc = "sleep"
                       /\ loops'[l].wake = now + Interval(l)]_vars

\* the knowledge loop is in the load that follows a failed load, its retry
\* sleep and a full interval
C37_Witness ==
    /\ loops["kb"].pc = "load" /\ loops["kb"].failed /\ ~loops["kb"].cancelled
    /\ loops["kb"].t0 = 2 * knowledge_refresh_interval + retry_delay
    /\ loops["hr"].pc \in Running /\ ~loops["hr"].cancelled /\ hrFetched

\* C39 (as claimed): the running webhook server can be stopped on its own: the
\* program, doing what it can, brings a running server to the stopped state
\* while the conversation is live and its refresh tasks are not cancelled.
C39_ServerStopsOnItsOwn ==
    (server = "running" /\ conv[1].pc = "live")
        ~> (/\ server = "stopped"
            /\ conv[1].pc = "live"
            /\ \A l \in LoopNames : loops[l].pc \in Running /\ ~loops[l].cancelled)

\* C39 (as the code behaves): no step of the program stops the webhook server;
\* once started it is running in every later state.
C39_ServerIsNeverStopped == [][server = "running" => server' = "running"]_vars

====
